---- MODULE Spec2Model ----
\* A model of the WebFaction XML-RPC client of utils/webfaction.py: one
\* WebFactionBase object, the remote calls each of its methods puts on the
\* wire, and what each invocation hands back to its caller.
\*
\* Python values are records tagged with their type (field t), so that
\* isinstance, truthiness and `in` are computed as the interpreter computes
\* them.  The remote service and passwordmeter are the environment: the reply
\* to a call and the score of a password are inputs of each step.  structlog
\* is a third-party library and its processor chain is not modelled: a call on
\* the logger is taken to return normally, while the arguments of the call
\* (the str.format expressions) are evaluated as written.
EXTENDS Integers, Sequences, FiniteSets, TLC

VARIABLES pc, self, calls, ret, inv, logins, granted

vars == <<pc, self, calls, ret, inv, logins, granted>>

\* ------------------------------------------------------------------ bounds
\* The results a remote call may return, and the top of passwordmeter's score
\* counted in halves (0 is 0.0, 1 is 0.5, 2 is 1.0).
MaxResult == 2
MaxScore == 2

\* `strength < 0.5`, in halves.
StrengthThreshold == 1

\* ------------------------------------------------------------ Python values
Str(s) == [t |-> "str", v |-> s]
Num(s) == [t |-> "int", v |-> s]
List(s) == [t |-> "list", v |-> s]
Struct(s) == [t |-> "struct", v |-> s]
PyNone == [t |-> "NoneType", v |-> "None"]
PyTrue == [t |-> "bool", v |-> "True"]
PyFalse == [t |-> "bool", v |-> "False"]
Unset == [t |-> "unset", v |-> "unset"]

\* isinstance(x, string_types) and isinstance(x, list)
IsString(x) == x.t = "str"
IsList(x) == x.t = "list"

\* bool(x)
Truthy(x) ==
    CASE x.t = "bool" -> x.v = "True"
      [] x.t = "str" -> x.v # ""
      [] x.t = "int" -> x.v # "0"
      [] x.t = "list" -> x.v # "[]"
      [] x.t = "NoneType" -> FALSE
      [] OTHER -> TRUE

\* x in seq
In(x, seq) == \E i \in DOMAIN seq : seq[i] = x

\* "...{a}...{b}".format(k1=..., k2=...): every placeholder needs a keyword,
\* a missing one raises KeyError.
FormatOK(placeholders, keywords) == placeholders \subseteq keywords

\* --------------------------------------------------------- module constants
API_URL == Str("https://api.webfaction.com")

WebFactionDBUser(username, password, db_type) ==
    [t |-> "WebFactionDBUser", username |-> username, password |-> password,
     db_type |-> db_type]

\* ------------------------------------------------- outcomes of an invocation
Return(val) == [kind |-> "return", val |-> val]
Raise(exc) == [kind |-> "raise", val |-> [t |-> exc, v |-> exc]]
NoOutcome == [kind |-> "none", val |-> PyNone]

\* self.server.<proc>(*args): one request on the wire.
RPC(proc, args) == [proc |-> proc, args |-> args]

\* What running a method does: the object afterwards, the remote calls it
\* issued in order, and what the caller gets.
Effect(obj, issued, out) == [self |-> obj, calls |-> issued, out |-> out]

\* The replies of the service: a result, or an xmlrpclib.Fault.
Results == {Struct(ToString(i)) : i \in 1..MaxResult}
Replies == [fault : {FALSE}, result : Results] \cup {[fault |-> TRUE, result |-> PyNone]}

Tokens == {Str("session-a"), Str("session-b")}
LoginReplies ==
    {[fault |-> FALSE, result |-> [t |-> "tuple", session |-> tok, account |-> Struct("account")]] :
        tok \in Tokens}
    \cup {[fault |-> TRUE, result |-> PyNone]}

Scores == 0..MaxScore

\* ---------------------------------------------------------------- the class
\* The object before __init__ has assigned anything.
NoObject ==
    [session_id |-> Unset, valid_db_types |-> <<>>, valid_addons |-> <<>>,
     valid_shells |-> <<>>, username |-> Unset, password |-> Unset,
     target_server |-> Unset, api_version |-> Unset, server |-> Unset]

\* The def statements of class WebFactionBase in the order the class body
\* executes them; a later def of a name rebinds it.
ClassBody ==
    << [name |-> "__init__", line |-> 30],
       [name |-> "get_config", line |-> 57],
       [name |-> "login", line |-> 77],
       [name |-> "system", line |-> 95],
       [name |-> "account_stats", line |-> 116],
       [name |-> "create_mailbox", line |-> 174],
       [name |-> "delete_mailbox", line |-> 226],
       [name |-> "create_db_user", line |-> 251],
       [name |-> "change_db_user_password", line |-> 308],
       [name |-> "delete_db_user", line |-> 364],
       [name |-> "delete_db", line |-> 403],
       [name |-> "enable_addon", line |-> 442],
       [name |-> "manage_db", line |-> 480],
       [name |-> "create_db_user", line |-> 542],
       [name |-> "delete_user", line |-> 581] >>

\* The def a name is bound to once the class body has run: the last one.
Binding(name) ==
    LET last == CHOOSE i \in DOMAIN ClassBody :
                    /\ ClassBody[i].name = name
                    /\ \A j \in DOMAIN ClassBody : ClassBody[j].name = name => j <= i
    IN ClassBody[last].line

\* get_config(): the credentials file is missing, or holds the three keys.
ConfigFiles == {"missing", "complete"}
get_config(config) ==
    IF config = "missing"
    THEN Raise("NotImplementedError")
    ELSE Return([t |-> "tuple", username |-> Str("cfg_user"),
                 password |-> Str("cfg_pass"), target_server |-> Str("Web1")])

\* `except <handler>`: the handler takes an exception of its own class.
Catches(handler, out) == out.kind = "raise" /\ out.val.t = handler

\* login() unpacking the reply as (account, session_id).
login_swapped(obj, reply) ==
    LET withServer == [obj EXCEPT !.server = API_URL]
        call == RPC("login", <<obj.username, obj.password, obj.target_server,
                               obj.api_version>>)
    IN  IF reply.fault
        THEN Effect(withServer, <<call>>, Raise("Fault"))
        ELSE Effect([withServer EXCEPT !.session_id = reply.result.account],
                    <<call>>, Return(PyNone))

\* login(): no handler around the remote call.
login(obj, reply) ==
    LET withServer == [obj EXCEPT !.server = API_URL]
        call == RPC("login", <<obj.username, obj.password, obj.target_server,
                               obj.api_version>>)
    IN  IF reply.fault
        THEN Effect(withServer, <<call>>, Raise("Fault"))
        ELSE Effect([withServer EXCEPT !.session_id = reply.result.session],
                    <<call>>, Return(PyNone))

\* __init__(username, password, target_server)
init(obj, username, password, target_server, config, reply) ==
    LET o1 == [obj EXCEPT !.session_id = PyNone,
                          !.valid_db_types = <<Str("mysql"), Str("postgresql")>>,
                          !.valid_addons = <<Str("tsearch"), Str("postgis")>>,
                          !.valid_shells = <<Str("none"), Str("bash"), Str("sh"),
                                             Str("ksh"), Str("csh"), Str("tcsh")>>]
        given == Truthy(username) /\ Truthy(password) /\ Truthy(target_server)
        cfg == get_config(config)
        creds == IF given
                 THEN [username |-> username, password |-> password,
                       target_server |-> target_server]
                 ELSE cfg.val
    IN  IF ~given /\ cfg.kind = "raise" /\ ~Catches("NotImplemented", cfg)
        THEN Effect(o1, <<>>, cfg)
        ELSE LET o2 == [o1 EXCEPT !.username = creds.username,
                                  !.password = creds.password,
                                  !.target_server = creds.target_server,
                                  !.api_version = Num("2")]
                 e == login(o2, reply)
             IN  IF e.out.kind = "raise" THEN e ELSE Effect(e.self, e.calls, Return(PyNone))

\* system(cmd)
system(obj, cmd, reply) ==
    LET call == RPC("system", <<obj.session_id, cmd>>)
    IN  IF ~reply.fault
        THEN Effect(obj, <<call>>, Return(PyNone))
        ELSE IF FormatOK({"command"}, {"commad"})
             THEN Effect(obj, <<call>>, Return(PyFalse))
             ELSE Effect(obj, <<call>>, Raise("KeyError"))

\* The dispatch table with the targets of ips and machines exchanged.
stats_operations_swapped ==
    [disk |-> "list_disk_usage", bandwidth |-> "list_bandwidth_usage",
     apps |-> "list_apps", dbs |-> "list_dbs", db_users |-> "list_db_users",
     mailboxes |-> "list_mailboxes", users |-> "list_users", ips |-> "list_machines",
     machines |-> "list_ips"]

\* account_stats(action): the dispatch table built at the top of the method.
stats_operations ==
    [disk |-> "list_disk_usage", bandwidth |-> "list_bandwidth_usage",
     apps |-> "list_apps", dbs |-> "list_dbs", db_users |-> "list_db_users",
     mailboxes |-> "list_mailboxes", users |-> "list_users", ips |-> "list_ips",
     machines |-> "list_machines"]

\* action in operations.keys(): the keys are strings.
IsKey(action, operations) == action.t = "str" /\ action.v \in DOMAIN operations

account_stats(obj, action, reply) ==
    IF ~IsKey(action, stats_operations)
    THEN Effect(obj, <<>>, Raise("Exception"))
    ELSE LET call == RPC(stats_operations[action.v], <<obj.session_id>>)
         IN  IF ~reply.fault
             THEN Effect(obj, <<call>>, Return(reply.result))
             ELSE Effect(obj, <<call>>, Return(PyFalse))

\* create_mailbox(mailbox, enable_spam_protection, discard_spam,
\*                spam_redirect_folder, use_manual_procmailrc, manual_procmailrc)
create_mailbox(obj, mailbox, enable_spam_protection, discard_spam, spam_redirect_folder, use_manual_procmailrc, manual_procmailrc, reply) ==
    IF ~IsString(mailbox) \/ ~IsString(spam_redirect_folder) \/ ~IsString(manual_procmailrc)
    THEN Effect(obj, <<>>, Raise("AssertionError"))
    ELSE IF Truthy(use_manual_procmailrc) /\ ~Truthy(manual_procmailrc)
    THEN Effect(obj, <<>>, Raise("ValueError"))
    ELSE LET call == RPC("create_mailbox",
                         <<obj.session_id, mailbox, enable_spam_protection, discard_spam,
                           spam_redirect_folder, use_manual_procmailrc, manual_procmailrc>>)
         IN  IF ~reply.fault
             THEN \* the result is logged and its password printed; nothing is returned
                  Effect(obj, <<call>>, Return(PyNone))
             ELSE IF FormatOK({"name"}, {"name"})
                  THEN Effect(obj, <<call>>, Return(PyFalse))
                  ELSE Effect(obj, <<call>>, Raise("KeyError"))

\* delete_mailbox that logs in again when the call faults.
delete_mailbox_relogin(obj, mailbox, reply) ==
    IF ~IsString(mailbox)
    THEN Effect(obj, <<>>, Raise("AssertionError"))
    ELSE LET call == RPC("delete_mailbox", <<obj.session_id, mailbox>>)
             again == RPC("login", <<obj.username, obj.password, obj.target_server,
                                     obj.api_version>>)
         IN  IF ~reply.fault
             THEN Effect(obj, <<call>>, Return(reply.result))
             ELSE Effect(obj, <<call, again>>, Return(PyFalse))

\* delete_mailbox(mailbox)
delete_mailbox(obj, mailbox, reply) ==
    IF ~IsString(mailbox)
    THEN Effect(obj, <<>>, Raise("AssertionError"))
    ELSE LET call == RPC("delete_mailbox", <<obj.session_id, mailbox>>)
         IN  IF ~reply.fault
             THEN Effect(obj, <<call>>, Return(reply.result))
             ELSE IF FormatOK({"name"}, {"name"})
                  THEN Effect(obj, <<call>>, Return(PyFalse))
                  ELSE Effect(obj, <<call>>, Raise("KeyError"))

\* The def of create_db_user at line 251 (database user):
\* create_db_user(username, password, db_type, enforce_password_strength=True);
\* strength is passwordmeter's score of the password.
create_db_user_L251(obj, username, password, db_type, enforce_password_strength, strength, reply) ==
    IF ~IsString(username) \/ ~IsString(password) \/ ~IsString(db_type)
    THEN Effect(obj, <<>>, Raise("AssertionError"))
    ELSE IF Truthy(enforce_password_strength) /\ strength < StrengthThreshold
    THEN Effect(obj, <<>>, Raise("ValueError"))
    ELSE IF ~In(db_type, obj.valid_db_types)
    THEN Effect(obj, <<>>, Raise("ValueError"))
    ELSE LET call == RPC("create_db_user", <<obj.session_id, username, password, db_type>>)
         IN  IF ~reply.fault
             THEN Effect(obj, <<call>>, Return(WebFactionDBUser(username, password, db_type)))
             ELSE IF FormatOK({"name", "type"}, {"name", "type"})
                  THEN Effect(obj, <<call>>, Return(PyFalse))
                  ELSE Effect(obj, <<call>>, Raise("KeyError"))

\* change_db_user_password(username, password, db_type, enforce_password_strength=True)
change_db_user_password(obj, username, password, db_type, enforce_password_strength, strength, reply) ==
    IF ~IsString(username) \/ ~IsString(password) \/ ~IsString(db_type)
    THEN Effect(obj, <<>>, Raise("AssertionError"))
    ELSE IF Truthy(enforce_password_strength) /\ strength < StrengthThreshold
    THEN Effect(obj, <<>>, Raise("ValueError"))
    ELSE IF ~In(db_type, obj.valid_db_types)
    THEN Effect(obj, <<>>, Raise("ValueError"))
    ELSE LET call == RPC("change_db_user_password",
                         <<obj.session_id, username, password, db_type>>)
         IN  IF ~reply.fault
             THEN Effect(obj, <<call>>, Return(WebFactionDBUser(username, password, db_type)))
             ELSE IF FormatOK({"name", "type"}, {"name", "type"})
                  THEN Effect(obj, <<call>>, Return(PyFalse))
                  ELSE Effect(obj, <<call>>, Raise("KeyError"))

\* delete_db_user without its db_type check.
delete_db_user_unchecked(obj, username, db_type, reply) ==
    IF ~IsString(username) \/ ~IsString(db_type)
    THEN Effect(obj, <<>>, Raise("AssertionError"))
    ELSE LET call == RPC("delete_db_user", <<obj.session_id, username, db_type>>)
         IN  IF ~reply.fault
             THEN Effect(obj, <<call>>, Return(reply.result))
             ELSE Effect(obj, <<call>>, Return(PyFalse))

\* delete_db_user(username, db_type)
delete_db_user(obj, username, db_type, reply) ==
    IF ~IsString(username) \/ ~IsString(db_type)
    THEN Effect(obj, <<>>, Raise("AssertionError"))
    ELSE IF ~In(db_type, obj.valid_db_types)
    THEN Effect(obj, <<>>, Raise("ValueError"))
    ELSE LET call == RPC("delete_db_user", <<obj.session_id, username, db_type>>)
         IN  IF ~reply.fault
             THEN Effect(obj, <<call>>, Return(reply.result))
             ELSE IF FormatOK({"name"}, {"name"})
                  THEN Effect(obj, <<call>>, Return(PyFalse))
                  ELSE Effect(obj, <<call>>, Raise("KeyError"))

\* delete_db that repeats the call once when it faults.
delete_db_retry(obj, dbname, db_type, reply) ==
    IF ~IsString(dbname) \/ ~IsString(db_type)
    THEN Effect(obj, <<>>, Raise("AssertionError"))
    ELSE IF ~In(db_type, obj.valid_db_types)
    THEN Effect(obj, <<>>, Raise("ValueError"))
    ELSE LET call == RPC("delete_db", <<obj.session_id, dbname, db_type>>)
         IN  IF ~reply.fault
             THEN Effect(obj, <<call>>, Return(reply.result))
             ELSE Effect(obj, <<call, call>>, Return(PyFalse))

\* delete_db(dbname, db_type)
delete_db(obj, dbname, db_type, reply) ==
    IF ~IsString(dbname) \/ ~IsString(db_type)
    THEN Effect(obj, <<>>, Raise("AssertionError"))
    ELSE IF ~In(db_type, obj.valid_db_types)
    THEN Effect(obj, <<>>, Raise("ValueError"))
    ELSE LET call == RPC("delete_db", <<obj.session_id, dbname, db_type>>)
         IN  IF ~reply.fault
             THEN Effect(obj, <<call>>, Return(reply.result))
             ELSE IF FormatOK({"name"}, {"name"})
                  THEN Effect(obj, <<call>>, Return(PyFalse))
                  ELSE Effect(obj, <<call>>, Raise("KeyError"))

\* enable_addon(dbname, addon)
enable_addon(obj, dbname, addon, reply) ==
    IF ~IsString(dbname) \/ ~IsString(addon)
    THEN Effect(obj, <<>>, Raise("AssertionError"))
    ELSE IF ~In(addon, obj.valid_addons)
    THEN Effect(obj, <<>>, Raise("ValueError"))
    ELSE LET call == RPC("enable_addon",
                         <<obj.session_id, dbname, Str("postgresql"), addon>>)
         IN  IF ~reply.fault
             THEN Effect(obj, <<call>>, Return(reply.result))
             ELSE IF FormatOK({"addon", "dbname"}, {"addon", "dbname"})
                  THEN Effect(obj, <<call>>, Return(PyFalse))
                  ELSE Effect(obj, <<call>>, Raise("KeyError"))

\* manage_db(username, database, db_type, action): its dispatch table.
db_operations ==
    [make_owner |-> "make_user_owner_of_db", grant_perm |-> "grant_db_permissions",
     revoke_perm |-> "revoke_db_permissions"]

manage_db(obj, username, database, db_type, action, reply) ==
    IF ~IsString(username) \/ ~IsString(db_type) \/ ~IsString(database)
    THEN Effect(obj, <<>>, Raise("AssertionError"))
    ELSE IF ~In(db_type, obj.valid_db_types)
    THEN Effect(obj, <<>>, Raise("ValueError"))
    ELSE IF ~IsKey(action, db_operations)
    THEN Effect(obj, <<>>, Raise("Exception"))
    ELSE LET call == RPC(db_operations[action.v],
                         <<obj.session_id, username, database, db_type>>)
         IN  IF ~reply.fault
             THEN Effect(obj, <<call>>, Return(reply.result))
             ELSE IF FormatOK({"name", "dbname"}, {"name", "dbname"})
                  THEN Effect(obj, <<call>>, Return(PyFalse))
                  ELSE Effect(obj, <<call>>, Raise("KeyError"))

\* The def of create_db_user at line 542 (shell user):
\* create_db_user(username, shell, groups)
create_db_user_L542(obj, username, shell, groups, reply) ==
    IF ~IsString(username) \/ ~IsString(shell) \/ ~IsList(groups)
    THEN Effect(obj, <<>>, Raise("AssertionError"))
    ELSE IF ~In(shell, obj.valid_shells)
    THEN Effect(obj, <<>>, Raise("ValueError"))
    ELSE LET call == RPC("create_user", <<obj.session_id, username, shell, groups>>)
         IN  IF ~reply.fault
             THEN Effect(obj, <<call>>, Return(reply.result))
             ELSE IF FormatOK({"name", "shell", "groups"}, {"name", "shell", "groups"})
                  THEN Effect(obj, <<call>>, Return(PyFalse))
                  ELSE Effect(obj, <<call>>, Raise("KeyError"))

\* client.create_db_user(a, b, c): three positional arguments go to whichever
\* def the name is bound to; the def at line 251 takes its default for
\* enforce_password_strength.
create_db_user(obj, a, b, c, strength, reply) ==
    IF Binding("create_db_user") = 251
    THEN create_db_user_L251(obj, a, b, c, PyTrue, strength, reply)
    ELSE create_db_user_L542(obj, a, b, c, reply)

\* delete_user(username)
delete_user(obj, username, reply) ==
    IF ~IsString(username)
    THEN Effect(obj, <<>>, Raise("AssertionError"))
    ELSE LET call == RPC("delete_user", <<obj.session_id, username>>)
         IN  IF ~reply.fault
             THEN Effect(obj, <<call>>, Return(reply.result))
             ELSE IF FormatOK({"name"}, {"name"})
                  THEN Effect(obj, <<call>>, Return(PyFalse))
                  ELSE Effect(obj, <<call>>, Raise("KeyError"))

\* ------------------------------------------------------------------ inputs
\* What callers pass: well-formed arguments and, for each check a method
\* makes, arguments that fail it.
CtorStrings == {Str(""), Str("u")}
Commands == {Str("ls"), Str("uptime")}
Names == {Str("alice"), Num("7")}
Passwords == {Str("hunter2"), Num("7")}
Databases == {Str("shop"), Num("7")}
DbTypes == {Str("mysql"), Str("postgresql"), Str("sqlite"), Num("7")}
SomeDbTypes == {Str("mysql"), Str("sqlite"), Num("7")}
Addons == {Str("tsearch"), Str("postgis"), Str("hstore"), Num("7")}
Shells == {Str("none"), Str("bash"), Str("sh"), Str("ksh"), Str("csh"), Str("tcsh"),
           Str("zsh"), Num("7")}
Groups == {List("[]"), List("['www']"), Str("www")}
StatsActions == {Str(k) : k \in DOMAIN stats_operations} \cup {Str("cpu"), Num("7")}
DbActions == {Str(k) : k \in DOMAIN db_operations} \cup {Str("drop")}
Flags == {PyTrue, PyFalse}
SpamOptions == {<<PyTrue, PyFalse>>, <<PyFalse, PyTrue>>}
Folders == {Str("Junk"), Num("7")}
Procmailrcs == {Str(""), Str(":0"), Num("7")}
\* create_db_user is called with either def's kind of arguments.
SecondArgs == {Str("hunter2"), Str("bash"), Str("zsh")}
ThirdArgs == {Str("mysql"), Str("sqlite"), List("[]"), List("['www']")}

\* ----------------------------------------------------------------- actions
Init ==
    /\ pc = "new"
    /\ self = NoObject
    /\ calls = <<>>
    /\ ret = NoOutcome
    /\ inv = [method |-> "none", args |-> <<>>, reply |-> [fault |-> FALSE, result |-> PyNone]]
    /\ logins = 0
    /\ granted = Unset

CountLogins(issued) == Cardinality({i \in DOMAIN issued : issued[i].proc = "login"})

\* A caller invokes a bound method of the constructed client.
Invoke(method, args, reply, e) ==
    /\ pc = "ready"
    /\ self' = e.self
    /\ calls' = e.calls
    /\ ret' = e.out
    /\ inv' = [method |-> method, args |-> args, reply |-> reply]
    /\ logins' = logins + CountLogins(e.calls)
    /\ UNCHANGED <<pc, granted>>

\* The same, for a method that has passwordmeter score a password.
InvokeScored(method, args, strength, reply, e) ==
    /\ pc = "ready"
    /\ self' = e.self
    /\ calls' = e.calls
    /\ ret' = e.out
    /\ inv' = [method |-> method, args |-> args, reply |-> reply, strength |-> strength]
    /\ logins' = logins + CountLogins(e.calls)
    /\ UNCHANGED <<pc, granted>>

Construct ==
    /\ pc = "new"
    /\ \E username \in CtorStrings, password \in CtorStrings,
          target_server \in CtorStrings, config \in ConfigFiles, reply \in LoginReplies :
          LET e == init(self, username, password, target_server, config, reply)
          IN  /\ self' = e.self
              /\ calls' = e.calls
              /\ ret' = e.out
              /\ inv' = [method |-> "__init__",
                         args |-> <<username, password, target_server>>,
                         reply |-> reply, config |-> config]
              /\ logins' = logins + CountLogins(e.calls)
              /\ pc' = IF e.out.kind = "raise" THEN "failed" ELSE "ready"
              /\ granted' = IF e.calls # <<>> /\ ~reply.fault
                            THEN reply.result.session ELSE granted

Call_system ==
    \E cmd \in Commands, reply \in Replies :
        Invoke("system", <<cmd>>, reply, system(self, cmd, reply))

Call_account_stats ==
    \E action \in StatsActions, reply \in Replies :
        Invoke("account_stats", <<action>>, reply, account_stats(self, action, reply))

Call_create_mailbox ==
    \E mailbox \in Names, spam \in SpamOptions,
       spam_redirect_folder \in Folders, use_manual_procmailrc \in Flags,
       manual_procmailrc \in Procmailrcs, reply \in Replies :
      LET enable_spam_protection == spam[1]
          discard_spam == spam[2]
      IN
        Invoke("create_mailbox",
               <<mailbox, enable_spam_protection, discard_spam, spam_redirect_folder,
                 use_manual_procmailrc, manual_procmailrc>>,
               reply,
               create_mailbox(self, mailbox, enable_spam_protection, discard_spam,
                              spam_redirect_folder, use_manual_procmailrc,
                              manual_procmailrc, reply))

Call_delete_mailbox ==
    \E mailbox \in Names, reply \in Replies :
        Invoke("delete_mailbox", <<mailbox>>, reply, delete_mailbox(self, mailbox, reply))

Call_create_db_user ==
    \E a \in Names, b \in SecondArgs, c \in ThirdArgs, strength \in Scores,
       reply \in Replies :
        InvokeScored("create_db_user", <<a, b, c>>, strength, reply,
                     create_db_user(self, a, b, c, strength, reply))

Call_change_db_user_password ==
    \E username \in Names, password \in Passwords, db_type \in SomeDbTypes,
       enforce_password_strength \in Flags, strength \in Scores, reply \in Replies :
        InvokeScored("change_db_user_password",
                     <<username, password, db_type, enforce_password_strength>>,
                     strength, reply,
                     change_db_user_password(self, username, password, db_type,
                                             enforce_password_strength, strength, reply))

Call_delete_db_user ==
    \E username \in Names, db_type \in DbTypes, reply \in Replies :
        Invoke("delete_db_user", <<username, db_type>>, reply,
               delete_db_user(self, username, db_type, reply))

Call_delete_db ==
    \E dbname \in Names, db_type \in DbTypes, reply \in Replies :
        Invoke("delete_db", <<dbname, db_type>>, reply,
               delete_db(self, dbname, db_type, reply))

Call_enable_addon ==
    \E dbname \in Names, addon \in Addons, reply \in Replies :
        Invoke("enable_addon", <<dbname, addon>>, reply,
               enable_addon(self, dbname, addon, reply))

Call_manage_db ==
    \E username \in Names, database \in Databases, db_type \in SomeDbTypes,
       action \in DbActions, reply \in Replies :
        Invoke("manage_db", <<username, database, db_type, action>>, reply,
               manage_db(self, username, database, db_type, action, reply))

Call_delete_user ==
    \E username \in Names, reply \in Replies :
        Invoke("delete_user", <<username>>, reply, delete_user(self, username, reply))

Next ==
    \/ Construct
    \/ Call_system
    \/ Call_account_stats
    \/ Call_create_mailbox
    \/ Call_delete_mailbox
    \/ Call_create_db_user
    \/ Call_change_db_user_password
    \/ Call_delete_db_user
    \/ Call_delete_db
    \/ Call_enable_addon
    \/ Call_manage_db
    \/ Call_delete_user

Spec == Init /\ [][Next]_vars

\* ------------------------------------------------------------------ claims
\* The terms the claims are stated in.
Wrappers ==
    {"system", "account_stats", "create_mailbox", "delete_mailbox",
     "change_db_user_password", "delete_db_user", "delete_db", "enable_addon",
     "manage_db", "create_db_user", "delete_user"}
Invoked(method) == pc = "ready" /\ inv.method = method
InvokedWrapper == pc = "ready" /\ inv.method \in Wrappers
Arg(i) == inv.args[i]

DocDbTypes == {Str("mysql"), Str("postgresql")}
DocAddons == {Str("tsearch"), Str("postgis")}
DocShells == {Str("none"), Str("bash"), Str("sh"), Str("ksh"), Str("csh"), Str("tcsh")}
DocStatsActions ==
    {Str("disk"), Str("bandwidth"), Str("apps"), Str("dbs"), Str("db_users"),
     Str("mailboxes"), Str("users"), Str("ips"), Str("machines")}
DocDbActions == {Str("make_owner"), Str("grant_perm"), Str("revoke_perm")}

\* The remote procedure documented for each action.
DocProc(action) ==
    CASE action = Str("disk") -> "list_disk_usage"
      [] action = Str("bandwidth") -> "list_bandwidth_usage"
      [] action = Str("apps") -> "list_apps"
      [] action = Str("dbs") -> "list_dbs"
      [] action = Str("db_users") -> "list_db_users"
      [] action = Str("mailboxes") -> "list_mailboxes"
      [] action = Str("users") -> "list_users"
      [] action = Str("ips") -> "list_ips"
      [] action = Str("machines") -> "list_machines"
      [] action = Str("make_owner") -> "make_user_owner_of_db"
      [] action = Str("grant_perm") -> "grant_db_permissions"
      [] action = Str("revoke_perm") -> "revoke_db_permissions"
      [] OTHER -> "none"

\* The reasons for which a wrapper rejects its arguments.
BadDbType ==
    \/ inv.method \in {"delete_db_user", "delete_db"} /\ Arg(2) \notin DocDbTypes
    \/ inv.method \in {"change_db_user_password", "manage_db"} /\ Arg(3) \notin DocDbTypes
BadAddon == inv.method = "enable_addon" /\ Arg(2) \notin DocAddons
BadShell == inv.method = "create_db_user" /\ Arg(2) \notin DocShells
BadAction ==
    \/ inv.method = "account_stats" /\ Arg(1) \notin DocStatsActions
    \/ inv.method = "manage_db" /\ Arg(4) \notin DocDbActions
EmptyProcmailrc == inv.method = "create_mailbox" /\ Arg(5) = PyTrue /\ Arg(6) = Str("")
WeakPassword ==
    /\ inv.method = "change_db_user_password"
    /\ Arg(4) = PyTrue
    /\ inv.strength < StrengthThreshold
NonStringName ==
    \/ /\ inv.method \in {"create_mailbox", "delete_mailbox", "create_db_user",
                          "change_db_user_password", "delete_db_user", "delete_db",
                          "enable_addon", "manage_db", "delete_user"}
       /\ Arg(1).t # "str"
    \/ inv.method = "manage_db" /\ Arg(2).t # "str"
Rejected ==
    BadDbType \/ BadAddon \/ BadShell \/ BadAction \/ EmptyProcmailrc \/ WeakPassword
    \/ NonStringName

\* Arguments that pass every check of the method they are given to.
PassesValidation ==
    CASE inv.method = "system" -> TRUE
      [] inv.method = "account_stats" -> Arg(1) \in DocStatsActions
      [] inv.method = "create_mailbox" ->
            /\ Arg(1).t = "str" /\ Arg(4).t = "str" /\ Arg(6).t = "str"
            /\ ~(Arg(5) = PyTrue /\ Arg(6) = Str(""))
      [] inv.method \in {"delete_mailbox", "delete_user"} -> Arg(1).t = "str"
      [] inv.method = "create_db_user" ->
            Arg(1).t = "str" /\ Arg(2) \in DocShells /\ Arg(3).t = "list"
      [] inv.method = "change_db_user_password" ->
            /\ Arg(1).t = "str" /\ Arg(2).t = "str" /\ Arg(3) \in DocDbTypes
            /\ (Arg(4) = PyTrue => inv.strength >= StrengthThreshold)
      [] inv.method \in {"delete_db_user", "delete_db"} ->
            Arg(1).t = "str" /\ Arg(2) \in DocDbTypes
      [] inv.method = "enable_addon" -> Arg(1).t = "str" /\ Arg(2) \in DocAddons
      [] inv.method = "manage_db" ->
            /\ Arg(1).t = "str" /\ Arg(2).t = "str" /\ Arg(3) \in DocDbTypes
            /\ Arg(4) \in DocDbActions
      [] OTHER -> FALSE

\* The one remote call a valid invocation is to issue: the procedure, and the
\* arguments that follow the session token.
ForwardedProc ==
    CASE inv.method \in {"account_stats"} -> DocProc(Arg(1))
      [] inv.method = "manage_db" -> DocProc(Arg(4))
      [] inv.method = "create_db_user" -> "create_user"
      [] OTHER -> inv.method
ForwardedArgs ==
    CASE inv.method = "account_stats" -> <<>>
      [] inv.method \in {"change_db_user_password", "manage_db"} -> SubSeq(inv.args, 1, 3)
      [] inv.method = "enable_addon" -> <<Arg(1), Str("postgresql"), Arg(2)>>
      [] OTHER -> inv.args

\* C1: every remote call a client method issues after construction carries, as
\* its first argument, the session token the login call returned.
C1_TokenIsFirstArgument ==
    InvokedWrapper =>
        /\ granted \in Tokens
        /\ \A i \in DOMAIN calls :
              Len(calls[i].args) >= 1 /\ calls[i].args[1] = granted
C1_Witness ==
    /\ Invoked("manage_db") /\ calls # <<>> /\ granted = Str("session-b")
    /\ calls[1].args[1] = Str("session-b")

\* C2: when the arguments pass validation and the remote call faults, the
\* wrapper returns its documented failure sentinel (False; an empty list for
\* create_mailbox) and no exception reaches the caller.
C2_FaultYieldsDocumentedSentinel ==
    (InvokedWrapper /\ PassesValidation /\ inv.reply.fault) =>
        ret = Return(IF inv.method = "create_mailbox" THEN List("[]") ELSE PyFalse)

\* C3: a fault raised by the login call made during construction is caught and
\* does not propagate out of the constructor.
C3_LoginFaultIsCaught ==
    (inv.method = "__init__" /\ calls # <<>> /\ inv.reply.fault) =>
        (ret.kind = "return" /\ pc = "ready")

\* C4: a wrapper given arguments that pass its validation issues exactly one
\* remote call, whether that call succeeds or faults, and the call carries the
\* session token followed by the caller's arguments, unchanged and in order
\* (enable_addon puts 'postgresql' between the database name and the addon).
C4_ExactlyOneCallWithCallerArgs ==
    (InvokedWrapper /\ PassesValidation) =>
        calls = << RPC(ForwardedProc, <<granted>> \o ForwardedArgs) >>
C4_Witness ==
    /\ Invoked("enable_addon") /\ PassesValidation /\ inv.reply.fault
    /\ calls = << RPC("enable_addon",
                      <<granted, Str("alice"), Str("postgresql"), Str("postgis")>>) >>

\* C5: a wrapper that rejects its arguments raises an error and issues no
\* remote call for that invocation.
C5_RejectionIssuesNoCall ==
    (InvokedWrapper /\ Rejected) => (ret.kind = "raise" /\ calls = <<>>)
C5_Witness ==
    /\ Invoked("change_db_user_password") /\ WeakPassword /\ ~BadDbType /\ ~NonStringName
    /\ Arg(2).t = "str"
    /\ ret = Raise("ValueError") /\ calls = <<>>

\* C6: create_db_user(username, password, db_type) with three strings, a valid
\* db_type and a strong enough password issues the remote create_db_user with
\* (session token, username, password, db_type), and returns a WebFactionDBUser
\* of the three on success and False on a fault.
C6_CreateDbUserCreatesDatabaseUser ==
    (/\ Invoked("create_db_user")
     /\ Arg(1).t = "str" /\ Arg(2).t = "str" /\ Arg(3) \in DocDbTypes
     /\ inv.strength >= StrengthThreshold) =>
        /\ calls = << RPC("create_db_user", <<granted, Arg(1), Arg(2), Arg(3)>>) >>
        /\ ret = IF inv.reply.fault
                 THEN Return(PyFalse)
                 ELSE Return(WebFactionDBUser(Arg(1), Arg(2), Arg(3)))

\* C7: create_mailbox with valid arguments returns the struct the remote
\* create_mailbox call returned when that call succeeds.
C7_CreateMailboxReturnsStruct ==
    (Invoked("create_mailbox") /\ PassesValidation /\ ~inv.reply.fault) =>
        ret = Return(inv.reply.result)

\* C8: the client logs in exactly once, during construction; afterwards no
\* wrapper invocation, whatever its outcome, changes session_id, the
\* credentials or the valid_* lists, and none issues another login call.
C8_LoginOnceAndFrame ==
    /\ [](pc = "ready" => (logins = 1 /\ self.session_id = granted))
    /\ [][pc = "ready" => (self' = self /\ logins' = logins)]_vars
C8_Witness ==
    /\ Invoked("delete_mailbox") /\ inv.reply.fault /\ calls # <<>>
    /\ logins = 1 /\ self.session_id = granted /\ granted \in Tokens

\* C9: account_stats(action) calls, for each of the nine documented actions, that
\* action's own remote procedure with the session token as the only argument
\* and returns its result unchanged on success; any other action raises an
\* exception.
C9_AccountStatsDispatch ==
    Invoked("account_stats") =>
        IF Arg(1) \in DocStatsActions
        THEN /\ calls = << RPC(DocProc(Arg(1)), <<granted>>) >>
             /\ (~inv.reply.fault => ret = Return(inv.reply.result))
        ELSE ret.kind = "raise" /\ calls = <<>>
C9_Witness ==
    /\ Invoked("account_stats") /\ Arg(1) = Str("ips") /\ ~inv.reply.fault
    /\ calls = << RPC("list_ips", <<granted>>) >>
    /\ ret = Return(inv.reply.result)
====
